---- MODULE Spec2Model ----
(***************************************************************************)
(* Model of src/main.py: the report_waste handler (POST /report), the      *)
(* get_hotspots handler (GET /get-hotspots), the uploads directory and the *)
(* reports table of backend/watchwaste.db.                                 *)
(*                                                                         *)
(* Numbers: confidences are in hundredths (0.85 is 85), coordinates in     *)
(* tenths of a degree (12.9 is 129).                                       *)
(***************************************************************************)
EXTENDS Integers, Sequences, FiniteSets, TLC

\* Number of submissions (calls of report_waste) in one behaviour.
NumSubs == 2

Subs == 1..NumSubs

-----------------------------------------------------------------------------
(* Python / JSON values.  t is the type, n the number (or the truth value,  *)
(* or the length of a container), s the characters of a text.  A text whose *)
(* s is "#" is the decimal literal of n (the text "0.9" is NumText(90)).    *)

JAbsent == [t |-> "absent", n |-> 0, s |-> ""]
JNull == [t |-> "null", n |-> 0, s |-> ""]
JBool(b) == [t |-> "bool", n |-> IF b THEN 1 ELSE 0, s |-> ""]
JNum(n) == [t |-> "num", n |-> n, s |-> ""]
JStr(s) == [t |-> "str", n |-> 0, s |-> s]
NumText(n) == [t |-> "str", n |-> n, s |-> "#"]
JList(n) == [t |-> "list", n |-> n, s |-> ""]

\* Python truth value testing, as used by `if is_trash` and `0.85 if is_trash`.
Truthy(v) ==
    CASE v.t = "bool" -> v.n = 1
      [] v.t = "num" -> v.n # 0
      [] v.t = "str" -> v.s # ""
      [] v.t = "list" -> v.n > 0
      [] OTHER -> FALSE

-----------------------------------------------------------------------------
(* The text of the model's response, as a sequence of tokens: a code fence  *)
(* (three backticks), the word json, white space, and the body.  A body is  *)
(* a JSON object with up to three fields, another JSON value, or text that  *)
(* is not JSON.                                                             *)

NoFields == [is_trash |-> JAbsent, description |-> JAbsent, confidence |-> JAbsent]

Fence == [k |-> "fence", kind |-> "", fields |-> NoFields]
JsonWord == [k |-> "json", kind |-> "", fields |-> NoFields]
Space == [k |-> "ws", kind |-> "", fields |-> NoFields]
Body(kind, fields) == [k |-> "body", kind |-> kind, fields |-> fields]

Object(f) == Body("object", f)
NotJson == Body("garbage", NoFields)
JsonArray == Body("array", NoFields)
JsonScalar == Body("scalar", NoFields)

\* str.replace('```json', ''): every fence directly followed by the word json goes.
RECURSIVE ReplaceFenceJson(_)
ReplaceFenceJson(text) ==
    IF Len(text) = 0 THEN << >>
    ELSE IF Len(text) >= 2 /\ text[1].k = "fence" /\ text[2].k = "json"
         THEN ReplaceFenceJson(SubSeq(text, 3, Len(text)))
         ELSE << text[1] >> \o ReplaceFenceJson(Tail(text))

\* A replace that removes only the first fence it meets.
ReplaceFenceOnce(text) ==
    IF \E i \in DOMAIN text : text[i].k = "fence"
    THEN LET first == CHOOSE i \in DOMAIN text :
                         /\ text[i].k = "fence"
                         /\ \A j \in 1..(i - 1) : text[j].k # "fence"
         IN  SubSeq(text, 1, first - 1) \o SubSeq(text, first + 1, Len(text))
    ELSE text

\* str.replace('```', ''): every remaining fence goes.
ReplaceFence(text) == SelectSeq(text, LAMBDA tok : tok.k # "fence")

\* str.strip(): white space at both ends goes.
RECURSIVE LStrip(_)
LStrip(text) ==
    IF Len(text) > 0 /\ text[1].k = "ws" THEN LStrip(Tail(text)) ELSE text

RECURSIVE RStrip(_)
RStrip(text) ==
    IF Len(text) > 0 /\ text[Len(text)].k = "ws"
    THEN RStrip(SubSeq(text, 1, Len(text) - 1))
    ELSE text

cleaned_text(text) == RStrip(LStrip(ReplaceFence(ReplaceFenceJson(text))))

\* json.loads succeeds on exactly one JSON value, with or without white
\* space around it; anything else raises.
JsonLoads(text) ==
    LET value == RStrip(LStrip(text))
    IN  IF Len(value) = 1 /\ value[1].k = "body" /\ value[1].kind # "garbage"
        THEN value[1]
        ELSE NotJson

\* dict.get(key, default)
Get(value, default) == IF value.t = "absent" THEN default ELSE value

-----------------------------------------------------------------------------
(* The verdict: the values of is_trash, description and confidence.         *)

DefaultConfidenceTrash == 85
DefaultConfidenceClean == 0
DemoConfidence == 98

Verdict(t, d, c) == [is_trash |-> t, description |-> d, confidence |-> c]

\* The locals before the analysis.
PendingVerdict == Verdict(JBool(FALSE), JStr("Pending"), JNum(0))

\* The demo branch with the default confidence in place of its own.
DemoVerdictDefault ==
    Verdict(JBool(TRUE),
            JStr("DEMO MODE: Verified pile of garbage containing plastic and debris."),
            JNum(DefaultConfidenceTrash))

\* The demo branch.
DemoVerdict ==
    Verdict(JBool(TRUE),
            JStr("DEMO MODE: Verified pile of garbage containing plastic and debris."),
            JNum(DemoConfidence))

\* An except branch that keeps str(e) of an exception without a message.
ErrorVerdictBare(e) == Verdict(JBool(FALSE), JStr(""), JNum(0))

\* The except branch: str(e) follows the prefix, so the text is never empty.
ErrorVerdict(e) == Verdict(JBool(FALSE), JStr("AI Error: " \o e), JNum(0))

\* A default of 0.85 whatever is_trash is.
DefaultConfidenceAlways(is_trash) == JNum(DefaultConfidenceTrash)

\* 0.85 if is_trash else 0.0
DefaultConfidence(is_trash) ==
    IF Truthy(is_trash) THEN JNum(DefaultConfidenceTrash) ELSE JNum(DefaultConfidenceClean)

\* The three analysis.get calls on a parsed object.
ObjectVerdict(f) ==
    LET is_trash == Get(f.is_trash, JBool(FALSE))
    IN  Verdict(is_trash,
                Get(f.description, JStr("No description")),
                Get(f.confidence, DefaultConfidence(is_trash)))

\* From the response text to the verdict: clean, parse, read the fields;
\* every exception on the way ends in the except branch.
Analyse(text) ==
    LET analysis == JsonLoads(cleaned_text(text))
    IN  CASE analysis.kind = "object" -> ObjectVerdict(analysis.fields)
          [] analysis.kind = "garbage" -> ErrorVerdict("Expecting value")
          [] OTHER -> ErrorVerdict("object has no attribute 'get'")

-----------------------------------------------------------------------------
(* The reports table.  sqlite3 binds None, int, float, str and bytes and    *)
(* raises on any other type; a bool is bound as the integer 0 or 1.  The    *)
(* column's affinity then converts the bound value.                         *)

Bindable(v) == v.t \in {"null", "bool", "num", "str"}

Bind(v) == IF v.t = "bool" THEN JNum(100 * v.n) ELSE v

\* ai_analysis TEXT: a number is stored as its decimal text.
TextAffinity(v) == IF v.t = "num" THEN NumText(v.n) ELSE v

\* confidence REAL: a text that is a well-formed number is stored as that number.
RealAffinity(v) == IF v.t = "str" /\ v.s = "#" THEN JNum(v.n) ELSE v

\* The row the INSERT of report_waste stores; id is the INTEGER PRIMARY KEY.
Row(id, lat, lon, filename, timestamp, description, confidence) ==
    [id |-> id, lat |-> lat, lon |-> lon, image_path |-> filename,
     status |-> "Verified Hotspot", timestamp |-> timestamp,
     ai_analysis |-> TextAffinity(Bind(description)),
     confidence |-> RealAffinity(Bind(confidence))]

\* An INSERT that puts the new row in front of the stored ones.
InsertFirst(rows, row) == << row >> \o rows

\* A write that replaces the newest row instead of appending.
InsertOverNewest(rows, row) ==
    IF Len(rows) = 0 THEN << row >> ELSE [rows EXCEPT ![Len(rows)] = row]

\* INSERT INTO reports ... ; commit
Insert(rows, row) == Append(rows, row)

\* A view whose image is the stored reference without the base address.
HotspotViewBarePath(r) ==
    [lat |-> r.lat, lon |-> r.lon, status |-> r.status, image |-> r.image_path,
     time |-> r.timestamp, analysis |-> r.ai_analysis, confidence |-> r.confidence]

\* The SELECT of get_hotspots and the dictionary built from each row.
HotspotView(r) ==
    [lat |-> r.lat, lon |-> r.lon, status |-> r.status,
     image |-> "http://localhost:8000/static/" \o r.image_path,
     time |-> r.timestamp, analysis |-> r.ai_analysis, confidence |-> r.confidence]

Hotspots(rows) == [i \in 1..Len(rows) |-> HotspotView(rows[i])]

-----------------------------------------------------------------------------
(* Inputs of a submission.                                                  *)

\* (lat, lon) in tenths of a degree: Bengaluru, Delhi, a latitude of 91, a
\* longitude of -181.
Coords == { <<129, 776>>, <<286, 772>>, <<910, 776>>, <<129, -1810>> }
Filenames == {"a.jpg", "b.jpg"}
\* A photograph and a file PIL cannot identify as an image.
Images == {"photo", "junk"}

NoFile == "<no file>"
Truncated == ""

\* Image.open(io.BytesIO(image_data)) raises unless the bytes are an image.
IsImage(bytes) == bytes = "photo"

NoForm == [lat |-> 0, lon |-> 0, filename |-> "", image_data |-> ""]

-----------------------------------------------------------------------------
(* What the external model may answer.                                      *)

IsTrashValues ==
    {JAbsent, JBool(TRUE), JBool(FALSE), JNull, JNum(0), JStr(""), JStr("false")}
ConfidenceValues ==
    {JAbsent, JNum(95), JNum(150), NumText(90), JNull, JList(1)}
DescriptionValues ==
    {JAbsent, JStr("pile of debris"), JStr(""), JNull, JNum(500), JList(2)}

Payloads ==
    { Object([is_trash |-> t, description |-> d, confidence |-> c]) :
        t \in IsTrashValues, d \in DescriptionValues, c \in ConfidenceValues }
    \cup {NotJson, JsonArray, JsonScalar}

Bare(body) == << body >>
FencedJson(body) == << Fence, JsonWord, Space, body, Space, Fence >>
Fenced(body) == << Fence, Space, body, Space, Fence >>

\* The same fences with no white space around the body.
TightFencedJson(body) == << Fence, JsonWord, body, Fence >>
TightFenced(body) == << Fence, body, Fence >>

Texts == { Bare(b) : b \in Payloads } \cup { FencedJson(b) : b \in Payloads }
         \cup { Fenced(b) : b \in Payloads }
         \cup { TightFencedJson(b) : b \in Payloads }
         \cup { TightFenced(b) : b \in Payloads }

F(t, d, c) == [is_trash |-> t, description |-> d, confidence |-> c]

\* The answers drawn when several submissions run together.
CommonTexts ==
    { FencedJson(Object(F(JBool(TRUE), JStr("pile of debris"), JNum(95)))),
      Bare(Object(F(JBool(FALSE), JAbsent, JAbsent))),
      Bare(Object(F(JBool(TRUE), JAbsent, JAbsent))),
      Bare(Object(F(JBool(TRUE), JList(2), NumText(90)))) }

NoText == << >>

-----------------------------------------------------------------------------
VARIABLES
    DEMO_MODE,  \* the module-level flag
    workload,   \* "concurrent": every caller submits; "gateway": one caller, any answer
    pc,         \* where each report_waste coroutine stands
    form,       \* lat, lon, file.filename and image_data of each submission
    call,       \* the state of each submission's generate_content_async call
    calls,      \* how often each submission invoked the external model
    response,   \* response.text of each submission
    verdict,    \* is_trash, description, confidence of each submission
    outcome,    \* what each submission returned to its caller
    raised,     \* the exception that left each report_waste call, "" if none
    rowOf,     \* the id of the row each submission inserted, 0 if none
    overlapped, \* whether another submission was in flight at that insert
    uploads,    \* backend/uploads: file name -> bytes
    reports,    \* the reports table, in rowid order
    now,        \* the server clock
    hotspots    \* the result of the latest get_hotspots

vars == << DEMO_MODE, workload, pc, form, call, calls, response, verdict,
           outcome, raised, rowOf, overlapped, uploads, reports, now, hotspots >>

NoOutcome == [status |-> "none", message |-> "", details |-> JNull, confidence |-> JNull]
\* An exception that leaves report_waste: the framework answers 500.
ServerError ==
    [status |-> "error", message |-> "Internal Server Error",
     details |-> JNull, confidence |-> JNull]
Success(v) ==
    [status |-> "success", message |-> "Waste Verified!",
     details |-> v.description, confidence |-> v.confidence]
Rejected(v) ==
    [status |-> "rejected", message |-> "Not identified as waste.",
     details |-> v.description, confidence |-> v.confidence]

\* The state after import: init_db has created an empty table, the uploads
\* directory exists, no request has arrived.
Start(demo, w) ==
    /\ DEMO_MODE = demo
    /\ workload = w
    /\ pc = [s \in Subs |-> "idle"]
    /\ form = [s \in Subs |-> NoForm]
    /\ call = [s \in Subs |-> "none"]
    /\ calls = [s \in Subs |-> 0]
    /\ response = [s \in Subs |-> NoText]
    /\ verdict = [s \in Subs |-> PendingVerdict]
    /\ outcome = [s \in Subs |-> NoOutcome]
    /\ raised = [s \in Subs |-> ""]
    /\ rowOf = [s \in Subs |-> 0]
    /\ overlapped = [s \in Subs |-> FALSE]
    /\ uploads = [f \in Filenames |-> NoFile]
    /\ reports = << >>
    /\ now = 0
    /\ hotspots = << >>

Init == \E demo \in BOOLEAN : Start(demo, "concurrent")

\* One caller, every answer of the model.
GatewayInit == \E demo \in BOOLEAN : Start(demo, "gateway")

\* The submissions the callers make, the coordinates they send and the
\* response texts the external model can give.
Clients == IF workload = "gateway" THEN {1} ELSE Subs
CoordsSent == IF workload = "gateway" THEN Coords ELSE { <<129, 776>>, <<286, 772>> }
Oracle == IF workload = "gateway" THEN Texts ELSE CommonTexts

-----------------------------------------------------------------------------
(* report_waste.  The coroutine gives up control at its three awaits; each  *)
(* action is the code from one await to the next.                           *)

InFlight(s) == pc[s] \in {"reading", "sleeping", "calling"}

\* A write that goes to one fixed file whatever the upload is called.
WriteImageFixedName(files, name, bytes) == [files EXCEPT !["a.jpg"] = bytes]

\* A write that is put off: the directory stays as it was.
WriteImageLater(files, name, bytes) == files

\* with open(file_location, "wb") as f: f.write(image_data)
WriteImage(files, name, bytes) == [files EXCEPT ![name] = bytes]

\* A step 3 that is put off: the verdict is kept and the handler yields
\* before the INSERT and the return.
SaveToDBDeferred(s, v) ==
    /\ verdict' = [verdict EXCEPT ![s] = v]
    /\ pc' = [pc EXCEPT ![s] = "deciding"]
    /\ UNCHANGED << outcome, raised, rowOf, overlapped, reports, now >>

\* Step 3 for submission s with verdict v: the INSERT and the return.
SaveToDB(s, v) ==
    /\ verdict' = [verdict EXCEPT ![s] = v]
    /\ IF Truthy(v.is_trash)
       THEN IF Bindable(v.description) /\ Bindable(v.confidence)
            THEN /\ reports' = Insert(reports,
                        Row(Len(reports) + 1, form[s].lat, form[s].lon,
                            form[s].filename, now, v.description, v.confidence))
                 /\ now' = now + 1
                 /\ rowOf' = [rowOf EXCEPT ![s] = Len(reports) + 1]
                 /\ overlapped' = [overlapped EXCEPT ![s] =
                                      \E o \in Subs \ {s} : InFlight(o)]
                 /\ outcome' = [outcome EXCEPT ![s] = Success(v)]
                 /\ pc' = [pc EXCEPT ![s] = "returned"]
                 /\ UNCHANGED raised
            ELSE \* c.execute raises: nothing is stored, the exception leaves the handler
                 /\ outcome' = [outcome EXCEPT ![s] = ServerError]
                 /\ raised' = [raised EXCEPT ![s] = "sqlite3.ProgrammingError"]
                 /\ pc' = [pc EXCEPT ![s] = "failed"]
                 /\ UNCHANGED << reports, now, rowOf, overlapped >>
       ELSE /\ outcome' = [outcome EXCEPT ![s] = Rejected(v)]
            /\ pc' = [pc EXCEPT ![s] = "returned"]
            /\ UNCHANGED << reports, now, rowOf, overlapped, raised >>

\* An OSError that is swallowed: the handler goes on to call the model.
ContinueAfterOSError(s) ==
    /\ raised' = [raised EXCEPT ![s] = "OSError"]
    /\ call' = [call EXCEPT ![s] = "pending"]
    /\ calls' = [calls EXCEPT ![s] = @ + 1]
    /\ pc' = [pc EXCEPT ![s] = "calling"]
    /\ UNCHANGED << outcome, verdict, rowOf, overlapped, reports, now >>

\* An OSError of open() or f.write() is caught nowhere: the handler ends
\* there, before step 2.
AbortOnOSError(s) ==
    /\ raised' = [raised EXCEPT ![s] = "OSError"]
    /\ outcome' = [outcome EXCEPT ![s] = ServerError]
    /\ pc' = [pc EXCEPT ![s] = "failed"]
    /\ UNCHANGED << call, calls, verdict, rowOf, overlapped, reports, now >>

\* The request arrives; the handler runs to `await file.read()`.
report_waste_begin(s) ==
    /\ s \in Clients
    /\ pc[s] = "idle"
    /\ \E c \in CoordsSent, f \in Filenames, b \in Images :
          form' = [form EXCEPT ![s] =
                     [lat |-> c[1], lon |-> c[2], filename |-> f, image_data |-> b]]
    /\ pc' = [pc EXCEPT ![s] = "reading"]
    /\ UNCHANGED << DEMO_MODE, workload, call, calls, response, verdict,
                    outcome, raised, rowOf, overlapped, uploads, reports, now, hotspots >>

\* open() raises: nothing is written and the exception leaves the handler.
report_waste_open_fails(s) ==
    /\ pc[s] = "reading"
    /\ AbortOnOSError(s)
    /\ UNCHANGED << DEMO_MODE, workload, form, response, uploads, hotspots >>

\* open() has truncated the file and f.write raises.
report_waste_write_fails(s) ==
    /\ pc[s] = "reading"
    /\ uploads' = [uploads EXCEPT ![form[s].filename] = Truncated]
    /\ AbortOnOSError(s)
    /\ UNCHANGED << DEMO_MODE, workload, form, response, hotspots >>

\* The image is written.  Demo mode goes to sleep; otherwise Image.open
\* either raises (and the handler then runs to its return) or the external
\* model is called.
report_waste_save(s) ==
    /\ pc[s] = "reading"
    /\ uploads' = WriteImage(uploads, form[s].filename, form[s].image_data)
    /\ \/ /\ DEMO_MODE
          /\ pc' = [pc EXCEPT ![s] = "sleeping"]
          /\ UNCHANGED << call, calls, verdict, outcome, raised, rowOf, overlapped,
                          reports, now >>
       \/ /\ ~DEMO_MODE
          /\ ~IsImage(form[s].image_data)
          /\ SaveToDB(s, ErrorVerdict("cannot identify image file"))
          /\ UNCHANGED << call, calls >>
       \/ /\ ~DEMO_MODE
          /\ IsImage(form[s].image_data)
          /\ call' = [call EXCEPT ![s] = "pending"]
          /\ calls' = [calls EXCEPT ![s] = @ + 1]
          /\ pc' = [pc EXCEPT ![s] = "calling"]
          /\ UNCHANGED << verdict, outcome, raised, rowOf, overlapped, reports, now >>
    /\ UNCHANGED << DEMO_MODE, workload, form, response, hotspots >>

\* asyncio.sleep(2) is over: the demo verdict, step 3, the return.
report_waste_wake(s) ==
    /\ pc[s] = "sleeping"
    /\ SaveToDB(s, DemoVerdict)
    /\ UNCHANGED << DEMO_MODE, workload, form, call, calls, response,
                    uploads, hotspots >>

\* The model answers with a text: parse, step 3, the return.
report_waste_response(s) ==
    /\ pc[s] = "calling"
    /\ call[s] = "pending"
    /\ \E text \in Oracle :
          /\ response' = [response EXCEPT ![s] = text]
          /\ SaveToDB(s, Analyse(text))
    /\ call' = [call EXCEPT ![s] = "answered"]
    /\ UNCHANGED << DEMO_MODE, workload, form, calls, uploads, hotspots >>

\* A failing call that is made again, up to three times.
report_waste_call_retries(s) ==
    /\ pc[s] = "calling"
    /\ call[s] = "pending"
    /\ calls[s] < 3
    /\ calls' = [calls EXCEPT ![s] = @ + 1]
    /\ UNCHANGED << DEMO_MODE, workload, pc, form, call, response, verdict,
                    outcome, raised, rowOf, overlapped, uploads, reports, now,
                    hotspots >>

\* The call raises (network, quota, blocked response): the except branch.
report_waste_call_raises(s) ==
    /\ pc[s] = "calling"
    /\ call[s] = "pending"
    /\ SaveToDB(s, ErrorVerdict("503 Service Unavailable"))
    /\ call' = [call EXCEPT ![s] = "raised"]
    /\ UNCHANGED << DEMO_MODE, workload, form, calls, response, uploads,
                    hotspots >>

\* The external service never answers this call; the code sets no timeout.
model_hangs(s) ==
    /\ call[s] = "pending"
    /\ call' = [call EXCEPT ![s] = "lost"]
    /\ UNCHANGED << DEMO_MODE, workload, pc, form, calls, response, verdict,
                    outcome, raised, rowOf, overlapped, uploads, reports, now, hotspots >>

\* A get_hotspots whose list `data` outlives the call and keeps growing.
get_hotspots_accumulating ==
    /\ hotspots' = hotspots \o Hotspots(reports)
    /\ UNCHANGED << DEMO_MODE, workload, pc, form, call, calls, response,
                    verdict, outcome, raised, rowOf, overlapped, uploads, reports, now >>

get_hotspots ==
    /\ hotspots' = Hotspots(reports)
    /\ UNCHANGED << DEMO_MODE, workload, pc, form, call, calls, response,
                    verdict, outcome, raised, rowOf, overlapped, uploads, reports, now >>

Next ==
    \/ \E s \in Subs : report_waste_begin(s)
    \/ \E s \in Subs : report_waste_open_fails(s)
    \/ \E s \in Subs : report_waste_write_fails(s)
    \/ \E s \in Subs : report_waste_save(s)
    \/ \E s \in Subs : report_waste_wake(s)
    \/ \E s \in Subs : report_waste_response(s)
    \/ \E s \in Subs : report_waste_call_raises(s)
    \/ \E s \in Subs : model_hangs(s)
    \/ get_hotspots

Spec == Init /\ [][Next]_vars

GatewaySpec == GatewayInit /\ [][Next]_vars

\* The event loop resumes every coroutine that can run, and a sleep ends; the
\* external service owes nothing.
Fairness ==
    \A s \in Subs :
        /\ WF_vars(report_waste_open_fails(s) \/ report_waste_write_fails(s)
                   \/ report_waste_save(s))
        /\ WF_vars(report_waste_wake(s))
        /\ WF_vars(report_waste_response(s) \/ report_waste_call_raises(s))

FairSpec == Init /\ [][Next]_vars /\ Fairness

-----------------------------------------------------------------------------
(* Properties.                                                              *)

Finished(s) == pc[s] \in {"returned", "failed"}

\* The body the model wrote, whatever it wrapped it in.
BodyOf(text) == text[CHOOSE i \in DOMAIN text : text[i].k = "body"]

Answered(s) == call[s] = "answered"

\* Python's ==: bool and number compare by value, other types only with themselves.
Number(v) == IF v.t = "bool" THEN 100 * v.n ELSE v.n
PyEq(a, b) ==
    IF a.t \in {"bool", "num"} /\ b.t \in {"bool", "num"}
    THEN Number(a) = Number(b)
    ELSE a = b

RowIndexes(s) == { i \in DOMAIN reports : reports[i].id = rowOf[s] }
RowOfSub(s) == reports[CHOOSE i \in DOMAIN reports : reports[i].id = rowOf[s]]

\* C1: a finished submission whose verdict has is_trash = true has exactly one
\* row, with status "Verified Hotspot", the verdict's confidence and
\* description, and the submission's latitude, longitude and filename.
C1_AcceptedHasItsRow ==
    \A s \in Subs :
        Finished(s) /\ verdict[s].is_trash = JBool(TRUE) =>
            /\ Cardinality(RowIndexes(s)) = 1
            /\ RowOfSub(s).status = "Verified Hotspot"
            /\ PyEq(RowOfSub(s).confidence, verdict[s].confidence)
            /\ PyEq(RowOfSub(s).ai_analysis, verdict[s].description)
            /\ RowOfSub(s).lat = form[s].lat
            /\ RowOfSub(s).lon = form[s].lon
            /\ RowOfSub(s).image_path = form[s].filename

\* C2: a finished submission whose verdict has is_trash = false inserted
\* nothing, and the store holds a row for a finished submission if and only
\* if its verdict has is_trash = true, one row per such submission.
C2_RowIffTrash ==
    /\ \A s \in Subs :
          Finished(s) =>
             /\ verdict[s].is_trash = JBool(FALSE) => rowOf[s] = 0
             /\ rowOf[s] # 0 <=> verdict[s].is_trash = JBool(TRUE)
    /\ Len(reports) = Cardinality({ s \in Subs : verdict[s].is_trash = JBool(TRUE) })

\* The external call raised, or answered with a text whose body is not a JSON object.
ClassifierFailed(s) ==
    \/ call[s] = "raised"
    \/ Answered(s) /\ BodyOf(response[s]).kind # "object"

\* C3: after a failure of the external call or of parsing its answer the
\* verdict is is_trash = false, confidence 0.0 and a non-empty text, no
\* exception has left the handler, and the submission has returned "rejected"
\* with that text and confidence 0.0.
C3_FailureIsRejection ==
    \A s \in Subs :
        ClassifierFailed(s) =>
            /\ verdict[s].is_trash = JBool(FALSE)
            /\ verdict[s].confidence = JNum(0)
            /\ verdict[s].description.t = "str"
            /\ verdict[s].description.s # ""
            /\ raised[s] = ""
            /\ pc[s] = "returned"
            /\ outcome[s].status = "rejected"
            /\ outcome[s].details = verdict[s].description
            /\ outcome[s].confidence = JNum(0)
            /\ rowOf[s] = 0

C3_Witness ==
    \E s \in Subs :
        /\ Answered(s)
        /\ BodyOf(response[s]).kind = "array"
        /\ response[s] # Bare(BodyOf(response[s]))
        /\ outcome[s].status = "rejected"

\* C4: when the parsed object has no confidence field, the confidence is 0.85
\* if is_trash is true and 0.0 if is_trash is false or absent; an absent
\* is_trash is false, and the submission is rejected with confidence 0.0 and
\* no row.
C4_DefaultConfidence ==
    \A s \in Subs :
        Answered(s) /\ BodyOf(response[s]).kind = "object"
                    /\ BodyOf(response[s]).fields.confidence = JAbsent =>
            LET is_trash == BodyOf(response[s]).fields.is_trash
            IN  /\ is_trash = JBool(TRUE) => verdict[s].confidence = JNum(85)
                /\ is_trash \in {JBool(FALSE), JAbsent} => verdict[s].confidence = JNum(0)
                /\ is_trash = JAbsent =>
                      /\ verdict[s].is_trash = JBool(FALSE)
                      /\ outcome[s].status = "rejected"
                      /\ outcome[s].confidence = JNum(0)
                      /\ rowOf[s] = 0

C4_Witness ==
    \E s \in Subs :
        /\ Answered(s)
        /\ BodyOf(response[s]).kind = "object"
        /\ BodyOf(response[s]).fields.confidence = JAbsent
        /\ BodyOf(response[s]).fields.is_trash = JBool(TRUE)
        /\ outcome[s].status = "success"
        /\ outcome[s].confidence = JNum(85)

\* C5: a submission that has returned has status "success" exactly when it
\* inserted a row and "rejected" exactly when it did not; details and
\* confidence are the verdict's, and on success equal the analysis and the
\* confidence stored in its row.
C5_OutcomeMatchesStore ==
    \A s \in Subs :
        pc[s] = "returned" =>
            /\ outcome[s].status = "success" <=> rowOf[s] # 0
            /\ outcome[s].status = "rejected" <=> rowOf[s] = 0
            /\ outcome[s].details = verdict[s].description
            /\ outcome[s].confidence = verdict[s].confidence
            /\ outcome[s].status = "success" =>
                  /\ PyEq(RowOfSub(s).ai_analysis, outcome[s].details)
                  /\ PyEq(RowOfSub(s).confidence, outcome[s].confidence)

OutOfRange(f) == f.lat \notin -900..900 \/ f.lon \notin -1800..1800

\* C6: for a submission with a latitude outside [-90,90] or a longitude
\* outside [-180,180] the classifier is never invoked, no row is stored, and
\* the outcome is neither "success" nor "rejected".
C6_BadCoordinatesRefused ==
    \A s \in Subs :
        pc[s] # "idle" /\ OutOfRange(form[s]) =>
            /\ calls[s] = 0
            /\ rowOf[s] = 0
            /\ outcome[s].status \notin {"success", "rejected"}

\* C7: every submission that has arrived eventually returns an outcome to
\* its caller, also when the external call never answers.
C7_EverySubmissionReturns ==
    \A s \in Subs : (pc[s] = "reading") ~> Finished(s)

\* C8: when the image write fails the submission ends with a failure that is
\* neither "success" nor "rejected"; the classifier was not invoked for it,
\* it has no verdict and no row.
C8_WriteFailureAborts ==
    \A s \in Subs :
        raised[s] = "OSError" =>
            /\ pc[s] = "failed"
            /\ outcome[s].status \notin {"success", "rejected"}
            /\ calls[s] = 0
            /\ call[s] = "none"
            /\ verdict[s] = PendingVerdict
            /\ rowOf[s] = 0
            /\ \A i \in DOMAIN reports : \E o \in Subs \ {s} : rowOf[o] = reports[i].id

C8_Witness ==
    \E s \in Subs :
        /\ raised[s] = "OSError"
        /\ uploads[form[s].filename] = Truncated
        /\ \E o \in Subs \ {s} : rowOf[o] # 0

\* C9 as stated: in demo mode every finished submission has status
\* "success", confidence 0.98 and one row, and never called the model.
C9_DemoAlwaysSucceeds ==
    DEMO_MODE =>
        \A s \in Subs :
            /\ calls[s] = 0
            /\ Finished(s) =>
                  /\ outcome[s].status = "success"
                  /\ outcome[s].confidence = JNum(98)
                  /\ Cardinality(RowIndexes(s)) = 1

\* C9 amended: in demo mode no submission calls the model, and every finished
\* submission whose image was written has status "success", confidence 0.98
\* and one row, whatever the image.
C9_DemoSucceedsOnceWritten ==
    DEMO_MODE =>
        \A s \in Subs :
            /\ calls[s] = 0
            /\ call[s] = "none"
            /\ Finished(s) /\ raised[s] # "OSError" =>
                  /\ outcome[s].status = "success"
                  /\ outcome[s].confidence = JNum(98)
                  /\ Cardinality(RowIndexes(s)) = 1
                  /\ RowOfSub(s).confidence = JNum(98)

C9_Witness ==
    /\ DEMO_MODE
    /\ \E s \in Subs :
          /\ form[s].image_data = "junk"
          /\ outcome[s].status = "success"
          /\ outcome[s].confidence = JNum(98)
          /\ rowOf[s] # 0

Accepted == { s \in Subs : outcome[s].status = "success" }

\* The row r holds what submission s sent and what was decided for s.
WholeRow(r, s) ==
    /\ r.lat = form[s].lat
    /\ r.lon = form[s].lon
    /\ r.image_path = form[s].filename
    /\ r.status = "Verified Hotspot"
    /\ PyEq(r.ai_analysis, TextAffinity(Bind(verdict[s].description)))
    /\ PyEq(r.confidence, RealAffinity(Bind(verdict[s].confidence)))

\* C10: in every interleaving the store holds exactly one row per accepted
\* submission (one that returned "success"): as many rows as accepted
\* submissions, each row owned by one accepted submission and whole, with
\* its own id and timestamp, none lost and none twice.
C10_OneWholeRowPerAccepted ==
    /\ Len(reports) = Cardinality(Accepted)
    /\ \A s \in Accepted :
          /\ Cardinality(RowIndexes(s)) = 1
          /\ WholeRow(RowOfSub(s), s)
    /\ \A i \in DOMAIN reports :
          Cardinality({ s \in Accepted : rowOf[s] = reports[i].id }) = 1
    /\ \A i, j \in DOMAIN reports :
          i # j => /\ reports[i].id # reports[j].id
                   /\ reports[i].timestamp # reports[j].timestamp

\* Two accepted submissions that differ in coordinates, file name and
\* confidence, the first row inserted while another submission was in flight.
C10_Witness ==
    /\ ~DEMO_MODE
    /\ \E s, o \in Accepted :
          /\ rowOf[s] = 1
          /\ rowOf[o] = 2
          /\ overlapped[s]
          /\ form[s].lat # form[o].lat
          /\ form[s].filename # form[o].filename
          /\ verdict[s].confidence # verdict[o].confidence

\* C11: a get_hotspots call changes neither the reports table nor the
\* uploads, and when no insert has happened since the previous call (the
\* previous result is still the projection of the table) it returns that
\* same result again, same views in the same order.
C11_QueryIsIdempotent ==
    [][ get_hotspots =>
           /\ reports' = reports
           /\ uploads' = uploads
           /\ hotspots = Hotspots(reports) => hotspots' = hotspots ]_vars

\* A result with two views that is still the projection of the table.
C11_Witness ==
    /\ Len(hotspots) = 2
    /\ Len(reports) = 2
    /\ \A i \in 1..2 : hotspots[i].time = reports[i].timestamp

\* C12: get_hotspots returns one view per stored row, in storage order, none
\* left out and none added; lat, lon, status, time, analysis and confidence
\* are the row's, and image is "http://localhost:8000/static/" followed by
\* the row's image reference.
C12_OneViewPerRow ==
    [][ get_hotspots =>
           /\ Len(hotspots') = Len(reports)
           /\ \A i \in DOMAIN reports :
                 /\ hotspots'[i].lat = reports[i].lat
                 /\ hotspots'[i].lon = reports[i].lon
                 /\ hotspots'[i].status = reports[i].status
                 /\ hotspots'[i].time = reports[i].timestamp
                 /\ hotspots'[i].analysis = reports[i].ai_analysis
                 /\ hotspots'[i].confidence = reports[i].confidence
                 /\ hotspots'[i].image =
                       "http://localhost:8000/static/" \o reports[i].image_path ]_vars

\* A result whose two views name two different images.
C12_Witness ==
    /\ Len(hotspots) = 2
    /\ hotspots[1].image = "http://localhost:8000/static/b.jpg"
    /\ hotspots[2].image = "http://localhost:8000/static/a.jpg"

\* C13: whatever fence the model wrapped its payload in (with the word json
\* or without, with white space or without), the verdict is the one the
\* same payload gives unwrapped.
C13_FencesDoNotMatter ==
    \A s \in Subs :
        Answered(s) => verdict[s] = Analyse(Bare(BodyOf(response[s])))

\* An object in a plain fence and an accepted submission.
C13_Witness ==
    \E s \in Subs :
        /\ Answered(s)
        /\ BodyOf(response[s]).kind = "object"
        /\ response[s] = Fenced(BodyOf(response[s]))
        /\ verdict[s].is_trash = JBool(TRUE)
        /\ verdict[s].confidence = JNum(95)
        /\ outcome[s].status = "success"

\* C14: the classifier is invoked, and the demo sleep entered, only after
\* the submission's image has been written, and every row's image reference
\* names a file that exists in the uploads, so no view of get_hotspots
\* names an image that was not written yet.
C14_ImageBeforeCallAndRow ==
    /\ \A s \in Subs :
          /\ calls[s] > 0 => uploads[form[s].filename] # NoFile
          /\ pc[s] \in {"sleeping", "calling"} => uploads[form[s].filename] # NoFile
          /\ rowOf[s] # 0 => uploads[form[s].filename] # NoFile
    /\ \A i \in DOMAIN reports : uploads[reports[i].image_path] # NoFile
    /\ \A i \in DOMAIN hotspots :
          \E f \in Filenames :
             /\ hotspots[i].image = "http://localhost:8000/static/" \o f
             /\ uploads[f] # NoFile

\* A view is out while another submission is suspended at the classifier
\* call, its image written and no file of the other name yet.
C14_Witness ==
    \E s, o \in Subs :
        /\ Len(hotspots) = 1
        /\ rowOf[s] = 1
        /\ pc[o] = "calling"
        /\ form[o].filename = form[s].filename
        /\ \E f \in Filenames : uploads[f] = NoFile

\* C15: every verdict has a boolean is_trash, a number in [0,1] as
\* confidence and a text as description, and every stored row's confidence
\* is a number in [0,1].
C15_VerdictWellTyped ==
    /\ \A s \in Subs :
          /\ verdict[s].is_trash.t = "bool"
          /\ verdict[s].confidence.t = "num"
          /\ verdict[s].confidence.n \in 0..100
          /\ verdict[s].description.t = "str"
    /\ \A i \in DOMAIN reports :
          /\ reports[i].confidence.t = "num"
          /\ reports[i].confidence.n \in 0..100

\* The other submissions neither move nor change what they hold.
OthersStill(s) ==
    \A o \in Subs \ {s} :
        /\ pc'[o] = pc[o]
        /\ verdict'[o] = verdict[o]
        /\ outcome'[o] = outcome[o]
        /\ rowOf'[o] = rowOf[o]

\* C16 as stated: while a submission is between its start and its return
\* and not suspended at the external classifier call, no other submission
\* takes a step.
C16_YieldsOnlyAtTheCall ==
    [][ \A s \in Subs : InFlight(s) /\ pc[s] # "calling" => OthersStill(s) ]_vars

\* C16 amended: a submission yields control at its awaits only, which are
\* the read of the upload, the demo sleep and the external classifier call.
\* Every step moves one submission from one await to the next or to its
\* end: the image write runs in one step with the start of the sleep or of
\* the call (or with the rejection of an unreadable image), and the policy
\* decision, the insert and the response run in one step with the end of
\* the sleep or of the call, so a verdict or a row is never seen without
\* its outcome.
C16_YieldsOnlyAtAwaits ==
    [][ \A s \in Subs :
           pc'[s] # pc[s] =>
              /\ OthersStill(s)
              /\ pc[s] \in {"idle", "reading", "sleeping", "calling"}
              /\ pc[s] = "idle" => pc'[s] = "reading" /\ uploads' = uploads
              /\ pc[s] = "reading" /\ pc'[s] \in {"sleeping", "calling"} =>
                    uploads'[form[s].filename] = form[s].image_data
              /\ pc[s] \in {"sleeping", "calling"} =>
                    /\ pc'[s] \in {"returned", "failed"}
                    /\ outcome'[s].status \in {"success", "rejected", "error"}
                    /\ outcome'[s].status = "success" <=> Len(reports') = Len(reports) + 1
                    /\ outcome'[s].status = "success" <=> rowOf'[s] # 0
              /\ pc'[s] \notin {"returned", "failed"} =>
                    /\ verdict'[s] = PendingVerdict
                    /\ outcome'[s] = NoOutcome
                    /\ reports' = reports ]_vars

\* One submission is suspended at the read of its upload while another,
\* whose image is written under the same name, is suspended at the
\* classifier call.
C16_Witness ==
    \E s, o \in Subs :
        /\ pc[s] = "reading"
        /\ pc[o] = "calling"
        /\ form[s].filename = form[o].filename
        /\ uploads[form[o].filename] = form[o].image_data


\* C17: the Report store is append-only under every interleaving of
\* report_waste and get_hotspots: every step keeps the rows already stored
\* unchanged and in place, the row count never decreases, and the result
\* of a get_hotspots has the result of every earlier get_hotspots as a
\* prefix.
C17_AppendOnly ==
    [][ /\ Len(reports') >= Len(reports)
        /\ SubSeq(reports', 1, Len(reports)) = reports
        /\ Len(hotspots') >= Len(hotspots)
        /\ SubSeq(hotspots', 1, Len(hotspots)) = hotspots
        /\ hotspots = SubSeq(Hotspots(reports), 1, Len(hotspots)) ]_vars

\* A query has returned the one row there was, and a second row has been
\* stored behind it since.
C17_Witness ==
    /\ Len(hotspots) = 1
    /\ Len(reports) = 2
    /\ hotspots[1].time = reports[1].timestamp
    /\ reports[1].timestamp < reports[2].timestamp
    /\ \E s \in Subs : rowOf[s] = 2 /\ outcome[s].status = "success"


\* The image of submission s has been written: the handler is past step 1.
Written(s) ==
    \/ pc[s] \in {"sleeping", "calling", "returned"}
    \/ pc[s] = "failed" /\ raised[s] # "OSError"

\* A failed invocation has been followed by the rejection outcome.
FailureRejected(s) ==
    call[s] = "raised" =>
        /\ pc[s] = "returned"
        /\ outcome[s].status = "rejected"
        /\ outcome[s].confidence = JNum(0)
        /\ rowOf[s] = 0

\* C18 as stated: the external model is invoked at most once per
\* submission, exactly once when demo mode is off and the image write
\* succeeded, zero times in demo mode, and a failed invocation is followed
\* directly by the rejection outcome.
C18_CalledOnceAfterWrite ==
    \A s \in Subs :
        /\ calls[s] <= 1
        /\ DEMO_MODE => calls[s] = 0
        /\ ~DEMO_MODE /\ Written(s) => calls[s] = 1
        /\ FailureRejected(s)

\* C18 amended: the external model is invoked at most once per submission:
\* exactly once when demo mode is off, the image write succeeded and the
\* written bytes open as an image, and zero times otherwise (demo mode, a
\* failed write, bytes that are no image, a submission still reading its
\* upload); a failed invocation is followed directly by the rejection
\* outcome.
C18_NeverRetried ==
    \A s \in Subs :
        /\ calls[s] <= 1
        /\ calls[s] = 1 <=>
              ~DEMO_MODE /\ Written(s) /\ IsImage(form[s].image_data)
        /\ FailureRejected(s)

\* One invocation has failed and was made once only, while another
\* submission, whose bytes are no image, has returned without any call.
C18_Witness ==
    \E s, o \in Subs :
        /\ call[s] = "raised"
        /\ calls[s] = 1
        /\ outcome[s].status = "rejected"
        /\ pc[o] = "returned"
        /\ ~IsImage(form[o].image_data)
        /\ calls[o] = 0
        /\ outcome[o].status = "rejected"


\* C19: a submission whose model answer is a JSON object with is_trash
\* other than the boolean true (false, absent, null, 0, an empty text, or a
\* non-boolean such as the text "false") has no stored Report and no
\* "success" outcome.
C19_RowOnlyForBooleanTrue ==
    \A s \in Subs :
        Answered(s) /\ BodyOf(response[s]).kind = "object"
                    /\ BodyOf(response[s]).fields.is_trash # JBool(TRUE) =>
            /\ rowOf[s] = 0
            /\ outcome[s].status # "success"


\* The submissions made so far use pairwise distinct filenames.
DistinctFilenames ==
    \A s, o \in Subs :
        s # o /\ pc[s] # "idle" /\ pc[o] # "idle" =>
            form[s].filename # form[o].filename

\* The Image Store holds, under the image reference of the Report of
\* submission s, the bytes that s uploaded.
HoldsOwnBytes(s) ==
    /\ reports[rowOf[s]].image_path = form[s].filename
    /\ uploads[reports[rowOf[s]].image_path] = form[s].image_data

\* C20: when the submissions use pairwise distinct filenames, the bytes
\* held in the Image Store under each Report's image reference are the
\* image bytes of the submission that created that Report; they differ only
\* when another submission with the same filename has run its image write.
C20_ReportKeepsItsImage ==
    \A s \in Subs :
        rowOf[s] # 0 =>
            /\ DistinctFilenames => HoldsOwnBytes(s)
            /\ ~HoldsOwnBytes(s) =>
                  \E o \in Subs \ {s} :
                      /\ form[o].filename = form[s].filename
                      /\ pc[o] \notin {"idle", "reading"}

\* Two submissions with different filenames and different bytes have both
\* written their images, one of them has its Report, and each file holds
\* the bytes of its own submission.
C20_Witness ==
    \E s, o \in Subs :
        /\ rowOf[s] # 0
        /\ outcome[s].status = "success"
        /\ Written(o)
        /\ form[o].filename # form[s].filename
        /\ form[o].image_data # form[s].image_data
        /\ HoldsOwnBytes(s)
        /\ uploads[form[o].filename] = form[o].image_data

====
